---- MODULE Spec2Model ----
(***************************************************************************)
(* A model of refolder (src/src/lib.rs): `run` collects the files matching *)
(* a glob under a base directory, partitions them into `subfolders`        *)
(* buckets and moves every bucket into its own destination folder.         *)
(*                                                                         *)
(* Strings are sequences of one-character strings; a path is a record of   *)
(* the base it was built from and its components below that base.  The     *)
(* filesystem is the set of directories directly under the base directory  *)
(* and a map from the paths of regular files (relative to the base         *)
(* directory) to their contents.                                           *)
(***************************************************************************)
EXTENDS Integers, Sequences, FiniteSets, TLC

\* ------------------------------------------------------------------ bounds
\* Largest subfolder count given to run.
MaxN == 3
\* Largest number of regular files in the initial directory tree.
MaxFiles == 3
\* Number of consecutive calls of run in one behaviour.
MaxRuns == 2
\* Longest file list and largest bucket count handed to partition on its own.
MaxPartFiles == 12
MaxPartN == 6
\* Largest index handed to format_folder_name on its own.
MaxIndex == 720

\* ----------------------------------------------------------------- strings
Digits == <<"0", "1", "2", "3", "4", "5", "6", "7", "8", "9">>

Alphabet ==
    <<"a", "b", "c", "d", "e", "f", "g", "h", "i", "j", "k", "l", "m",
      "n", "o", "p", "q", "r", "s", "t", "u", "v", "w", "x", "y", "z">>

\* The characters the model uses, in byte order (the order of str::cmp).
CharOrder == <<"-", ".", "/">> \o Digits \o <<"T">> \o Alphabet

Ord(c) == CHOOSE n \in 1..Len(CharOrder) : CharOrder[n] = c

Lower(c) == IF c = "T" THEN "t" ELSE c

\* str::starts_with
StartsWith(s, p) == Len(p) <= Len(s) /\ SubSeq(s, 1, Len(p)) = p

\* Ord for str / OsStr: lexicographic over bytes, a proper prefix first.
RECURSIVE StrLess(_, _)
StrLess(s, t) ==
    IF t = <<>> THEN FALSE
    ELSE IF s = <<>> THEN TRUE
    ELSE IF Head(s) # Head(t) THEN Ord(Head(s)) < Ord(Head(t))
    ELSE StrLess(Tail(s), Tail(t))

\* Ord for Path: lexicographic over components.
RECURSIVE PathLess(_, _)
PathLess(p, q) ==
    IF q = <<>> THEN FALSE
    ELSE IF p = <<>> THEN TRUE
    ELSE IF Head(p) # Head(q) THEN StrLess(Head(p), Head(q))
    ELSE PathLess(Tail(p), Tail(q))

\* Shell-style glob match of a name against a pattern with * and ?.
RECURSIVE GlobMatch(_, _, _)
GlobMatch(pat, s, case_insensitive) ==
    IF pat = <<>> THEN s = <<>>
    ELSE IF Head(pat) = "*"
         THEN \/ GlobMatch(Tail(pat), s, case_insensitive)
              \/ (s # <<>> /\ GlobMatch(pat, Tail(s), case_insensitive))
    ELSE IF s = <<>> THEN FALSE
    ELSE /\ \/ Head(pat) = "?"
            \/ Head(pat) = Head(s)
            \/ (case_insensitive /\ Lower(Head(pat)) = Lower(Head(s)))
         /\ GlobMatch(Tail(pat), Tail(s), case_insensitive)

\* ------------------------------------------------------------------- paths
\* The canonical absolute form of the base directory, and the form a caller
\* gives when it names the same directory relatively.
CanonBase == <<"/", "r">>
RelativeBase == <<".">>

\* Path::new(base_path): the base exactly as the caller wrote it.
GivenBase(relative) == IF relative THEN RelativeBase ELSE CanonBase

MkPath(base, rel) == [base |-> base, rel |-> rel]

\* Path::join
Join(p, name) == [base |-> p.base, rel |-> Append(p.rel, name)]

\* Path::file_name
FileName(p) == p.rel[Len(p.rel)]

\* Path::display().to_string()
RECURSIVE RelStr(_)
RelStr(rel) ==
    IF rel = <<>> THEN <<>> ELSE <<"/">> \o Head(rel) \o RelStr(Tail(rel))

PathStr(p) == p.base \o RelStr(p.rel)

\* The file the operating system reaches through p: both forms of the base
\* name the same directory.
Resolve(p) == p.rel

\* -------------------------------------------------------------- arguments
Styles == {"numbers", "letters", "none", "bogus"}

\* The prefix and the pattern every call is given.
Prefix == <<"p">>
Pattern == <<"*", ".", "t">>

\* ----------------------------------------------------------------- results
Ok == [kind |-> "Ok", path |-> <<>>]
Err(kind, path) == [kind |-> kind, path |-> path]

\* -------------------------------------------------------------- filesystem
IsFile(fs, rel) == rel \in DOMAIN fs

IsDir(ds, rel) == Len(rel) = 1 /\ rel[1] \in ds

Exists(fs, ds, rel) == IsFile(fs, rel) \/ IsDir(ds, rel)

\* fs without the entry at rel (fs::remove_file).
RemoveFile(fs, rel) == [q \in DOMAIN fs \ {rel} |-> fs[q]]

\* fs::rename(src, dest), with the copy-then-remove fallback of run: the
\* content of src ends at dest and src is gone.
\* A move that copies to dest and leaves src behind.
MoveKeepingSource(fs, src, dest) ==
    [q \in DOMAIN fs \cup {dest} |-> IF q = dest THEN fs[src] ELSE fs[q]]

MoveFile(fs, src, dest) ==
    [q \in (DOMAIN fs \ {src}) \cup {dest} |->
        IF q = dest THEN fs[src] ELSE fs[q]]

\* ------------------------------------------------------------ collect_files
\* The sequence of the paths of S in ascending order (Vec::sort).
RECURSIVE SortPaths(_)
SortPaths(S) ==
    IF S = {} THEN <<>>
    ELSE LET least == CHOOSE p \in S : \A q \in S \ {p} : PathLess(p, q)
         IN <<least>> \o SortPaths(S \ {least})

\* The main walk: case-insensitive, immediate children unless recursive.
MainWalk(fs, recursive) ==
    {rel \in DOMAIN fs :
        /\ recursive \/ Len(rel) = 1
        /\ GlobMatch(Pattern, rel[Len(rel)], TRUE)}

\* The redo scan: one level inside every directory whose name starts with
\* the prefix; this walker is built without case_insensitive(true).
RedoWalk(fs, ds, prefix) ==
    {rel \in DOMAIN fs :
        /\ Len(rel) = 2
        /\ rel[1] \in ds
        /\ StartsWith(rel[1], prefix)
        /\ GlobMatch(Pattern, rel[2], FALSE)}

collect_files(fs, ds, recursive, prefix) ==
    LET found == MainWalk(fs, recursive) \cup RedoWalk(fs, ds, prefix)
        sorted == SortPaths(found)
    IN [j \in 1..Len(sorted) |-> MkPath(CanonBase, sorted[j])]

\* ---------------------------------------------------------------- partition
\* Every bucket taking the rounded-up share.
PartitionTakeCeil(total, n, i) ==
    (total \div n) + IF total % n > 0 THEN 1 ELSE 0

\* The number of files bucket i (from 0) is to take.
PartitionTake(total, n, i) ==
    (total \div n) + IF i < total % n THEN 1 ELSE 0

Min(a, b) == IF a < b THEN a ELSE b

RECURSIVE PartitionLoop(_, _, _, _, _)
PartitionLoop(files, n, i, idx, acc) ==
    IF i >= n THEN acc
    ELSE LET take == PartitionTake(Len(files), n, i)
             \* the inner loop pushes only while idx < files.len()
             got == Min(take, Len(files) - idx)
         IN PartitionLoop(files, n, i + 1, idx + got,
                          Append(acc, SubSeq(files, idx + 1, idx + got)))

partition(files, n) ==
    IF n = 0 \/ Len(files) = 0 THEN [j \in 1..n |-> <<>>]
    ELSE PartitionLoop(files, n, 0, 0, <<>>)

\* ------------------------------------------------------- format_folder_name
\* usize formatted by {}.
RECURSIVE Decimal(_)
Decimal(n) ==
    IF n < 10 THEN <<Digits[n + 1]>>
    ELSE Decimal(n \div 10) \o <<Digits[(n % 10) + 1]>>

\* Plain base 26: the loop without `i -= 1`.
RECURSIVE LettersLoopPlain(_, _)
LettersLoopPlain(i, s) ==
    IF i > 0
    THEN LettersLoopPlain(i \div 26, <<Alphabet[(i % 26) + 1]>> \o s)
    ELSE s

\* while i > 0 { i -= 1; s.insert(0, 'a' + i % 26); i /= 26 }
RECURSIVE LettersLoop(_, _)
LettersLoop(i, s) ==
    IF i > 0
    THEN LET j == i - 1
         IN LettersLoop(j \div 26, <<Alphabet[(j % 26) + 1]>> \o s)
    ELSE s

format_folder_name(prefix, index, suffix) ==
    CASE suffix = "numbers" ->
            [ok |-> TRUE, name |-> prefix \o <<"-">> \o Decimal(index)]
      [] suffix = "letters" ->
            [ok |-> TRUE, name |-> prefix \o <<"-">> \o LettersLoop(index, <<>>)]
      [] suffix = "none" -> [ok |-> TRUE, name |-> prefix]
      [] OTHER -> [ok |-> FALSE, name |-> <<>>]

\* ---------------------------------------------------- print_dry_run_preview
\* Vec::sort of strings, duplicates kept.
RECURSIVE InsertSorted(_, _)
InsertSorted(s, x) ==
    IF s = <<>> THEN <<x>>
    ELSE IF StrLess(x, Head(s)) THEN <<x>> \o s
    ELSE <<Head(s)>> \o InsertSorted(Tail(s), x)

RECURSIVE SortStrings(_)
SortStrings(s) ==
    IF s = <<>> THEN <<>> ELSE InsertSorted(SortStrings(Tail(s)), Head(s))

\* Path::parent of a destination.
Parent(p) == [base |-> p.base, rel |-> SubSeq(p.rel, 1, Len(p.rel) - 1)]

\* The names pushed under one folder key, in the order of the moves.
RECURSIVE NamesUnder(_, _)
NamesUnder(moves, folder) ==
    IF moves = <<>> THEN <<>>
    ELSE (IF Parent(Head(moves).dest) = folder
          THEN <<FileName(Head(moves).dest)>> ELSE <<>>)
         \o NamesUnder(Tail(moves), folder)

\* The keys of the BTreeMap in ascending order of their strings.
RECURSIVE SortFolders(_)
SortFolders(S) ==
    IF S = {} THEN <<>>
    ELSE LET least == CHOOSE p \in S :
                 \A q \in S \ {p} : StrLess(PathStr(p), PathStr(q))
         IN <<least>> \o SortFolders(S \ {least})

RECURSIVE SumLen(_)
SumLen(tree) ==
    IF tree = <<>> THEN 0 ELSE Len(Head(tree).files) + SumLen(Tail(tree))

\* What the preview prints: per folder its name and its sorted file names,
\* then the totals of the summary.
print_dry_run_preview(file_moves) ==
    LET keys == SortFolders({Parent(file_moves[j].dest) : j \in 1..Len(file_moves)})
        tree == [j \in 1..Len(keys) |->
                    [folder |-> FileName(keys[j]),
                     files |-> SortStrings(NamesUnder(file_moves, keys[j]))]]
    IN [tree |-> tree, total_folders |-> Len(keys), total_files |-> SumLen(tree)]

\* ------------------------------------------------------------------- state
VARIABLES
    baseKind,       \* what base_path names: "dir", "file" or "missing"
    dirs,           \* the names of the directories directly under the base
    disk,           \* path of every regular file below the base -> content
    args,           \* subfolders, suffix, recursive, force of the calls, and
                    \* whether base_path is written as a relative path
    dry_run,        \* the dry_run argument of the current call
    pc,             \* where the current call of run stands
    run_files,      \* run's `files`
    buckets,        \* run's `buckets`
    bucket_i,       \* run's loop index `i` (from 0)
    planned_moves,  \* run's `planned_moves`
    cursor,         \* position of the inner loop in planned_moves
    result,         \* what run returns
    printed,        \* what the call printed as its dry-run preview
    applied,        \* the moves the call has carried out, in order
    before,         \* disk and dirs when the call began
    log,            \* one record per call that has returned
    part,           \* partition on its own: input and output
    naming          \* format_folder_name on its own: style and outputs

vars ==
    <<baseKind, dirs, disk, args, dry_run, pc, run_files, buckets, bucket_i,
      planned_moves, cursor, result, printed, applied, before, log, part,
      naming>>

fsVars == <<baseKind, dirs, disk>>

runVars ==
    <<baseKind, dirs, disk, args, dry_run, pc, run_files, buckets, bucket_i,
      planned_moves, cursor, result, printed, applied, before, log>>

\* ---------------------------------------------------- initial directory tree
Names == {<<"a", ".", "t">>, <<"b", ".", "t">>, <<"c", ".", "T">>}

\* Directories that may exist before the first call: a folder of an earlier
\* distribution and an unrelated one.
InitDirs == {<<"p", "-", "1">>, <<"s", "u", "b">>}

\* A regular file in the base directory named like the second numbered folder.
Blocker == <<"p", "-", "2">>

CandidatePaths ==
    {<<nm>> : nm \in Names} \cup {<<d, nm>> : d \in InitDirs, nm \in Names}
        \cup {<<Blocker>>}

ArgSets ==
    [subfolders : 0..MaxN, suffix : Styles, recursive : BOOLEAN,
     force : BOOLEAN, relative : BOOLEAN]

EmptyDisk == [q \in {} |-> <<>>]

PartIdle == [files |-> <<>>, n |-> 0, out |-> <<>>, done |-> TRUE]
NamingIdle == [suffix |-> "none", out |-> <<>>]

RunAtRest ==
    /\ dry_run = FALSE
    /\ pc = "idle"
    /\ run_files = <<>>
    /\ buckets = <<>>
    /\ bucket_i = 0
    /\ planned_moves = <<>>
    /\ cursor = 0
    /\ result = Ok
    /\ printed = <<>>
    /\ applied = <<>>
    /\ before = [disk |-> EmptyDisk, dirs |-> {}]
    /\ log = <<>>

InitTree ==
    \/ /\ baseKind = "dir"
       /\ \E S \in SUBSET CandidatePaths :
            /\ Cardinality(S) <= MaxFiles
            /\ disk = [q \in S |-> q]
            /\ dirs = {q[1] : q \in {r \in S : Len(r) = 2}}
    \/ /\ baseKind \in {"file", "missing"}
       /\ disk = EmptyDisk
       /\ dirs = {}

Init ==
    /\ InitTree
    /\ args \in ArgSets
    /\ RunAtRest
    /\ part = PartIdle
    /\ naming = NamingIdle

\* ---------------------------------------------------------------------- run
\* run leaves through `return` or `?` with the value res.
Return(res) ==
    /\ pc' = "done"
    /\ result' = res

\* The first index >= from of a planned move the inner loop's filter lets
\* through (its destination string starts with the folder's), or 0.
NextMove(moves, folder_path, from) ==
    LET pass == {j \in from..Len(moves) :
                    StartsWith(PathStr(moves[j].dest), PathStr(folder_path))}
    IN IF pass = {} THEN 0 ELSE CHOOSE j \in pass : \A h \in pass : j <= h

\* The folder of the bucket the outer loop is at.
FolderPath(index) ==
    Join(MkPath(GivenBase(args.relative), <<>>),
         format_folder_name(Prefix, index, args.suffix).name)

\* The moves recorded for one bucket.
BucketMoves(bucket, folder_path) ==
    [j \in 1..Len(bucket) |->
        [src |-> bucket[j], dest |-> Join(folder_path, FileName(bucket[j]))]]

\* The outer loop's step to its next bucket, or out of the loop.
NextBucket ==
    /\ cursor' = 0
    /\ IF bucket_i + 1 < Len(buckets)
       THEN pc' = "bucket" /\ bucket_i' = bucket_i + 1
       ELSE pc' = "finish" /\ bucket_i' = bucket_i

\* The inner loop's step from position `from` of the moves.
Advance(moves, from) ==
    LET nxt == NextMove(moves, FolderPath(bucket_i + 1), from)
    IN IF nxt = 0 THEN NextBucket
       ELSE pc' = "move" /\ cursor' = nxt /\ bucket_i' = bucket_i

\* The call and everything up to the outer loop: the argument and path
\* checks, collect_files, the early return on no match, and partition.
Begin(dry) ==
    /\ pc = "idle"
    /\ Len(log) < MaxRuns
    \* a call is repeated after a call that succeeded; only the first call
    \* of a behaviour may be a dry run
    /\ log # <<>> => log[Len(log)].result = Ok /\ ~dry
    /\ dry_run' = dry
    /\ before' = [disk |-> disk, dirs |-> dirs]
    /\ planned_moves' = <<>>
    /\ applied' = <<>>
    /\ printed' = <<>>
    /\ cursor' = 0
    /\ bucket_i' = 0
    /\ LET files == IF baseKind = "dir"
                    THEN collect_files(disk, dirs, args.recursive, Prefix)
                    ELSE <<>>
       IN IF args.subfolders = 0
          THEN Return(Err("InvalidArgument", <<>>))
               /\ run_files' = <<>> /\ buckets' = <<>>
          ELSE IF baseKind # "dir"
          THEN Return(Err("PathError", GivenBase(args.relative)))
               /\ run_files' = <<>> /\ buckets' = <<>>
          ELSE IF files = <<>>
          THEN Return(Ok) /\ run_files' = files /\ buckets' = <<>>
          ELSE /\ run_files' = files
               /\ buckets' = partition(files, args.subfolders)
               /\ pc' = "bucket"
               /\ result' = result
    /\ UNCHANGED <<baseKind, dirs, disk, args, log, part, naming>>

\* A folder that is never created.
CreateNothing(ds, name) == ds

\* fs::create_dir_all of a folder directly under the base.
create_dir_all(ds, name) == ds \cup {name}

\* The filesystem touched whatever dry_run says.
ApplyAlways(dry) == TRUE

\* `if !dry_run`: whether the call touches the filesystem.
Applies(dry) == ~dry

\* The head of the outer loop's body: name the folder, record the bucket's
\* moves, and unless dry-run make sure the folder is a directory.
BucketHead ==
    /\ pc = "bucket"
    /\ LET fmt == format_folder_name(Prefix, bucket_i + 1, args.suffix)
           folder_path == FolderPath(bucket_i + 1)
           moves == planned_moves
                        \o BucketMoves(buckets[bucket_i + 1], folder_path)
       IN IF ~fmt.ok
          THEN /\ Return(Err("InvalidArgument", <<>>))
               /\ UNCHANGED <<planned_moves, dirs, cursor, bucket_i>>
          ELSE /\ planned_moves' = moves
               /\ IF ~Applies(dry_run)
                  THEN NextBucket /\ UNCHANGED <<dirs, result>>
                  ELSE IF Exists(disk, dirs, Resolve(folder_path))
                          /\ ~IsDir(dirs, Resolve(folder_path))
                  THEN /\ Return(Err("ConflictError", PathStr(folder_path)))
                       /\ UNCHANGED <<dirs, cursor, bucket_i>>
                  ELSE /\ dirs' = IF IsDir(dirs, Resolve(folder_path))
                                  THEN dirs
                                  ELSE create_dir_all(dirs, fmt.name)
                       /\ Advance(moves, 1)
                       /\ result' = result
    /\ UNCHANGED <<baseKind, disk, args, dry_run, run_files, buckets, printed,
                   applied, before, log, part, naming>>

\* An existing destination overwritten whatever force says.
OverwriteAlways(force) == "overwrite"

\* What the inner loop does about a destination that exists.
OnConflict(force) == IF force THEN "overwrite" ELSE "fail"

\* One pass of the inner loop's body over the planned move at the cursor.
MoveStep ==
    /\ pc = "move"
    /\ LET m == planned_moves[cursor]
           src == Resolve(m.src)
           dest == Resolve(m.dest)
           occupied == Exists(disk, dirs, dest)
           cleared == IF occupied /\ IsFile(disk, dest)
                      THEN RemoveFile(disk, dest) ELSE disk
       IN IF m.src = m.dest
          THEN Advance(planned_moves, cursor + 1)
               /\ UNCHANGED <<disk, applied, result>>
          ELSE IF occupied /\ OnConflict(args.force) = "fail"
          THEN /\ Return(Err("ConflictError", PathStr(m.dest)))
               /\ UNCHANGED <<disk, applied, cursor, bucket_i>>
          ELSE IF occupied /\ ~IsFile(disk, dest)
          THEN \* remove_file of a directory fails
               /\ Return(Err("FilesystemError", PathStr(m.dest)))
               /\ UNCHANGED <<disk, applied, cursor, bucket_i>>
          ELSE IF IsFile(cleared, src) /\ IsDir(dirs, Parent(m.dest).rel)
          THEN /\ disk' = MoveFile(cleared, src, dest)
               /\ applied' = Append(applied, m)
               /\ Advance(planned_moves, cursor + 1)
               /\ result' = result
          ELSE \* rename fails and so does the copy of the fallback
               /\ disk' = cleared
               /\ Return(Err("FilesystemError", PathStr(m.src)))
               /\ UNCHANGED <<applied, cursor, bucket_i>>
    /\ UNCHANGED <<baseKind, dirs, args, dry_run, run_files, buckets,
                   planned_moves, printed, before, log, part, naming>>

\* After the outer loop: the preview of a dry run, and Ok(()).
Finish ==
    /\ pc = "finish"
    /\ printed' = IF dry_run THEN <<print_dry_run_preview(planned_moves)>>
                  ELSE <<>>
    /\ Return(Ok)
    /\ UNCHANGED <<baseKind, dirs, disk, args, dry_run, run_files, buckets,
                   bucket_i, planned_moves, cursor, applied, before, log,
                   part, naming>>

\* The call has returned: the caller sees its result and the filesystem.
Returned ==
    /\ pc = "done"
    /\ log' = Append(log,
            [dry_run |-> dry_run, result |-> result, files |-> run_files,
             planned |-> planned_moves, applied |-> applied,
             printed |-> printed, before |-> before,
             after |-> [disk |-> disk, dirs |-> dirs]])
    /\ pc' = "idle"
    /\ UNCHANGED <<baseKind, dirs, disk, args, dry_run, run_files, buckets,
                   bucket_i, planned_moves, cursor, result, printed, applied,
                   before, part, naming>>

Next ==
    \/ \E dry \in BOOLEAN : Begin(dry)
    \/ BucketHead
    \/ MoveStep
    \/ Finish
    \/ Returned

Spec == Init /\ [][Next]_vars

\* ------------------------------------------------------- partition, alone
\* A sorted list of f distinct files of the base directory.
FileList(f) == [j \in 1..f |-> MkPath(CanonBase, <<<<Alphabet[j]>>>>)]

InitPartition ==
    /\ baseKind = "dir"
    /\ disk = EmptyDisk
    /\ dirs = {}
    /\ args = [subfolders |-> 1, suffix |-> "numbers", recursive |-> FALSE,
               force |-> FALSE, relative |-> FALSE]
    /\ RunAtRest
    /\ naming = NamingIdle
    /\ \E f \in 0..MaxPartFiles, n \in 0..MaxPartN :
            part = [files |-> FileList(f), n |-> n, out |-> <<>>,
                    done |-> FALSE]

ApplyPartition ==
    /\ ~part.done
    /\ part' = [part EXCEPT !.out = partition(part.files, part.n),
                            !.done = TRUE]
    /\ UNCHANGED runVars
    /\ UNCHANGED naming

SpecPartition == InitPartition /\ [][ApplyPartition]_vars

\* ---------------------------------------------- format_folder_name, alone
InitNames ==
    /\ baseKind = "dir"
    /\ disk = EmptyDisk
    /\ dirs = {}
    /\ args = [subfolders |-> 1, suffix |-> "numbers", recursive |-> FALSE,
               force |-> FALSE, relative |-> FALSE]
    /\ RunAtRest
    /\ part = PartIdle
    /\ \E st \in Styles : naming = [suffix |-> st, out |-> <<>>]

\* The name of the next index, appended to the names so far.
FormatNext ==
    /\ Len(naming.out) < MaxIndex
    /\ naming' = [naming EXCEPT !.out =
            Append(@, format_folder_name(Prefix, Len(@) + 1, naming.suffix))]
    /\ UNCHANGED runVars
    /\ UNCHANGED part

SpecNames == InitNames /\ [][FormatNext]_vars

\* ================================================================== claims
RECURSIVE Concat(_)
Concat(seqs) == IF seqs = <<>> THEN <<>> ELSE Head(seqs) \o Concat(Tail(seqs))

Range(seq) == {seq[j] : j \in 1..Len(seq)}

\* C1: for every file list of length f and every n >= 1, partition returns
\* exactly n buckets whose concatenation in index order is the list itself,
\* the first (f mod n) buckets of size floor(f/n) + 1 and the others of size
\* floor(f/n).
PartitionContract ==
    (part.done /\ part.n >= 1) =>
        LET f == Len(part.files)
            n == part.n
        IN /\ Len(part.out) = n
           /\ Concat(part.out) = part.files
           /\ \A b \in 1..n :
                Len(part.out[b]) = (f \div n) + IF b <= f % n THEN 1 ELSE 0

\* Seven files into three buckets: sizes 3, 2, 2.
PartitionWitness ==
    /\ part.done
    /\ Len(part.files) = 7
    /\ part.n = 3
    /\ [b \in 1..3 |-> Len(part.out[b])] = <<3, 2, 2>>

\* C8: with style "letters" the name of index i is the prefix, "-" and the
\* bijective base-26 numeral of i (1 -> a, 26 -> z, 27 -> aa, 28 -> ab), and
\* the name of every index differs from the name of every smaller index, so
\* no two indices of the range share a name.
LettersBijective ==
    naming.suffix = "letters" =>
        LET out == naming.out
            k == Len(out)
            Name(j) == out[j].name
        IN /\ \A j \in 1..k : out[j].ok
           /\ k >= 1 => Name(1) = <<"p", "-", "a">>
           /\ k >= 26 => Name(26) = <<"p", "-", "z">>
           /\ k >= 27 => Name(27) = <<"p", "-", "a", "a">>
           /\ k >= 28 => Name(28) = <<"p", "-", "a", "b">>
           /\ \A j \in 1..(k - 1) : Name(j) # Name(k)

\* The names up to the first of three letters, 703 -> aaa, are all formed.
LettersWitness ==
    /\ naming.suffix = "letters"
    /\ Len(naming.out) >= 703
    /\ naming.out[27].name = <<"p", "-", "a", "a">>
    /\ naming.out[702].name = <<"p", "-", "z", "z">>
    /\ naming.out[703].name = <<"p", "-", "a", "a", "a">>

\* --------------------------------------------------------- claims about run
\* The name of the folder of index j under the arguments of the calls.
FolderName(j) == format_folder_name(Prefix, j, args.suffix).name

\* The content a collected file had when the call began.
ContentOf(f) == before.disk[Resolve(f)]

\* Where a content is found now.
PlacesOf(c) == {q \in DOMAIN disk : disk[q] = c}

RealRunDone == pc = "done" /\ ~dry_run

\* The whole plan of a call: the moves of every bucket, in bucket order.
RECURSIVE PlanFrom(_)
PlanFrom(b) ==
    IF b > Len(buckets) THEN <<>>
    ELSE BucketMoves(buckets[b], FolderPath(b)) \o PlanFrom(b + 1)

\* C9: a call with dry_run = true leaves the filesystem exactly as it was,
\* at every point of the call and whether it returns success or an error.
DryRunMutatesNothing ==
    /\ (pc # "idle" /\ dry_run) =>
            disk = before.disk /\ dirs = before.dirs
    /\ \A j \in 1..Len(log) : log[j].dry_run => log[j].after = log[j].before

\* A dry run over at least two files has returned success and printed its
\* preview.
DryRunWitness ==
    /\ pc = "done"
    /\ dry_run
    /\ result = Ok
    /\ Len(planned_moves) >= 2
    /\ printed # <<>>
    /\ printed[1].total_files = Len(planned_moves)
    /\ \E j \in 1..Len(planned_moves) :
            planned_moves[j].src # planned_moves[j].dest

\* C6 as stated: after any successful non-dry run with subfolder count N a
\* directory exists at the folder of every index 1..N.
FoldersForEveryIndex ==
    (RealRunDone /\ result = Ok) =>
        \A j \in 1..args.subfolders : IsDir(dirs, <<FolderName(j)>>)

\* C6, amended: after any successful non-dry run that collected at least one
\* file, a directory exists at the folder of every index 1..N, the indices
\* whose bucket received no file included.
FoldersForEveryIndexWhenMatched ==
    (RealRunDone /\ result = Ok /\ run_files # <<>>) =>
        \A j \in 1..args.subfolders : IsDir(dirs, <<FolderName(j)>>)

\* A successful run with fewer files than folders has created the folder of
\* an empty bucket.
EmptyBucketFolderWitness ==
    /\ RealRunDone
    /\ result = Ok
    /\ run_files # <<>>
    /\ Len(run_files) < args.subfolders
    /\ buckets[args.subfolders] = <<>>
    /\ ~IsDir(before.dirs, <<FolderName(args.subfolders)>>)
    /\ IsDir(dirs, <<FolderName(args.subfolders)>>)

DistinctFileNames ==
    \A j, h \in 1..Len(run_files) :
        j # h => FileName(run_files[j]) # FileName(run_files[h])

\* The regular files that now lie in a destination folder and were collected.
CollectedInFolders ==
    {q \in DOMAIN disk :
        /\ Len(q) = 2
        /\ \E j \in 1..args.subfolders : q[1] = FolderName(j)
        /\ \E j \in 1..Len(run_files) : disk[q] = ContentOf(run_files[j])}

AtConflict ==
    /\ pc = "move"
    /\ ~args.force
    /\ planned_moves[cursor].src # planned_moves[cursor].dest
    /\ IsFile(disk, Resolve(planned_moves[cursor].dest))

\* C4: in a non-dry run without force, a move whose destination already
\* exists as a file and differs from its source makes run fail with a
\* ConflictError naming that destination, and the step changes nothing on
\* the filesystem: source and destination stay as they were.
ConflictWithoutForce ==
    [][AtConflict =>
        /\ pc' = "done"
        /\ result' = Err("ConflictError", PathStr(planned_moves[cursor].dest))
        /\ disk' = disk
        /\ dirs' = dirs]_vars

\* The run has failed on a destination held by another file; the source is
\* still at its path.
ConflictWitness ==
    /\ RealRunDone
    /\ ~args.force
    /\ cursor > 0
    /\ result = Err("ConflictError", PathStr(planned_moves[cursor].dest))
    /\ IsFile(disk, Resolve(planned_moves[cursor].src))
    /\ IsFile(disk, Resolve(planned_moves[cursor].dest))
    /\ Resolve(planned_moves[cursor].src) # Resolve(planned_moves[cursor].dest)

\* C2 as stated: the moves a dry run reports are the moves the real run with
\* the same arguments on the same directory applies (a move whose source is
\* its destination counts as applied).
DryRunFidelity ==
    (Len(log) = 2 /\ log[1].dry_run /\ log[1].result = Ok /\ ~log[2].dry_run) =>
        Range(log[2].applied)
            = {m \in Range(log[1].planned) : m.src # m.dest}

\* C3 as stated: after a successful non-dry run, a second run with the same
\* arguments (a style with distinct folder names) plans only moves whose
\* destination is where the file already is, moves no file and leaves every
\* folder as it was.
RedoIdempotent ==
    (/\ Len(log) = 2
     /\ ~log[1].dry_run
     /\ log[1].result = Ok
     /\ args.suffix \in {"numbers", "letters"}) =>
        /\ \A m \in Range(log[2].planned) : Resolve(m.src) = Resolve(m.dest)
        /\ log[2].applied = <<>>
        /\ log[2].after = log[2].before

\* C7 as stated: on every base directory, run returns InvalidArgument and
\* changes nothing whenever subfolders is 0 or the suffix style is unknown.
InvalidArgumentsRejected ==
    (/\ pc = "done"
     /\ baseKind = "dir"
     /\ args.subfolders = 0 \/ args.suffix \notin {"numbers", "letters", "none"}) =>
        /\ result.kind = "InvalidArgument"
        /\ disk = before.disk
        /\ dirs = before.dirs

\* C10 as stated: when no destination of the plan was occupied before the
\* run, a non-dry run applies each planned move at most once and, when it
\* returns, every collected file is at its source or at its destination.
NoFileDestroyed ==
    (/\ RealRunDone
     /\ args.suffix \in {"numbers", "letters", "none"}
     /\ \A m \in Range(PlanFrom(1)) :
            ~Exists(before.disk, before.dirs, Resolve(m.dest))) =>
        /\ \A j, h \in 1..Len(applied) : j # h => applied[j] # applied[h]
        /\ \A m \in Range(PlanFrom(1)) :
                \/ (IsFile(disk, Resolve(m.src))
                        /\ disk[Resolve(m.src)] = ContentOf(m.src))
                \/ (IsFile(disk, Resolve(m.dest))
                        /\ disk[Resolve(m.dest)] = ContentOf(m.src))

====
